---- MODULE Spec2Model ----
(***************************************************************************)
(* Model of api/watson-bridge.js: the webhook handler that relays          *)
(* "strategic update" payloads to the issue tracker.                       *)
(*                                                                         *)
(* JavaScript values are tagged records, so that truthiness (`||`, `if`),  *)
(* property access and template interpolation behave as in the source.    *)
(* A string is a sequence of tokens: a user-supplied character is one      *)
(* token, a literal of the source is one token.                            *)
(***************************************************************************)
EXTENDS Integers, Sequences, FiniteSets, TLC

VARIABLES
    live,      \* the invocations of the handler that exist in this run
    req,       \* req[i]: the request of invocation i, [method, body]
    pc,        \* pc[i]: "received" | "fetching" | "reading" | "responded"
    site,      \* site[i]: the createGitHubIssue call the invocation is inside
    idx,       \* idx[i]: index of the for-of loop of triggerStrategicEmail
    response,  \* response[i]: the fetch Response whose body is being read
    calls,     \* calls[i]: the issue payloads handed to fetch, in order
    answers,   \* answers[i]: how each fetch settled, in order
    sent       \* sent[i]: the responses written to res, in order

vars == <<live, req, pc, site, idx, response, calls, answers, sent>>

----------------------------------------------------------------------------
(* Bounds of the model *)

MaxEmails == 2

(* Program constants *)

SignificantLength == 100
BriefLength == 200

----------------------------------------------------------------------------
(* JavaScript values *)

Undefined == [type |-> "undefined"]
Null == [type |-> "null"]
Str(s) == [type |-> "string", chars |-> s]
Lit(s) == Str(<<s>>)
Num(n) == [type |-> "number", value |-> n]
Arr(s) == [type |-> "array", items |-> s]
Obj(e) == [type |-> "object", entries |-> e]
Field(k, v) == [key |-> k, value |-> v]

\* An object literal of a JSON document: a field that is undefined is absent.
Json(fields) == Obj(SelectSeq(fields, LAMBDA f : f.value.type # "undefined"))

Chars(n, c) == [j \in 1..n |-> c]

\* ToBoolean, as applied by `||`, `&&`, `!` and `if`.
Truthy(v) ==
    CASE v.type = "undefined" -> FALSE
      [] v.type = "null" -> FALSE
      [] v.type = "string" -> Len(v.chars) > 0
      [] v.type = "number" -> v.value # 0
      [] OTHER -> TRUE

\* a || b
OrElse(a, b) == IF Truthy(a) THEN a ELSE b

\* Reading a property of undefined or null throws a TypeError.
Nullish(v) == v.type \in {"undefined", "null"}

\* o.k for a value that is not nullish.
Get(o, k) ==
    IF o.type = "object" /\ \E j \in 1..Len(o.entries) : o.entries[j].key = k
    THEN o.entries[CHOOSE j \in 1..Len(o.entries) : o.entries[j].key = k].value
    ELSE Undefined

\* v.length > n for a truthy v; a value without a length compares false.
LengthExceeds(v, n) ==
    CASE v.type = "string" -> Len(v.chars) > n
      [] v.type = "array" -> Len(v.items) > n
      [] OTHER -> FALSE

\* ${v} in a template literal.
ToStr(v) ==
    CASE v.type = "string" -> v.chars
      [] v.type = "number" -> <<ToString(v.value)>>
      [] v.type = "undefined" -> <<"undefined">>
      [] v.type = "null" -> <<"null">>
      [] v.type = "array" -> <<"[array]">>
      [] OTHER -> <<"[object Object]">>

\* s.substring(0, n)
Substring(s, n) == SubSeq(s, 1, IF Len(s) < n THEN Len(s) ELSE n)

\* Object.entries(o)
Entries(o) == IF o.type = "object" THEN o.entries ELSE <<>>

RECURSIVE Join(_, _)
\* lines.join(sep)
Join(lines, sep) ==
    IF Len(lines) = 0 THEN <<>>
    ELSE IF Len(lines) = 1 THEN lines[1]
    ELSE lines[1] \o <<sep>> \o Join(Tail(lines), sep)

----------------------------------------------------------------------------
(* The literal text of the templates, one token per piece between two     *)
(* interpolations.                                                         *)

AnalysisHead == "\nStrategic Analysis Update\n\n## Key Insights\n"
AnalysisProjects == "\n\n## Project Context Updates\n"
AnalysisResearch == "\n\n## Additional Research Needed\n"
AnalysisTail ==
    "\n\n## Strategic Synthesis\nCross-project implications and strategic positioning adjustments identified.\n"
BriefHead == "\nStrategic insights brief\nCustom strategic communication\nKey insights: "
BriefTail == "...\n    "
DashboardHead == "\nDashboard Update with Strategic Context\n\n"
DashboardFocus == "\n\nFocus: "
DashboardContext == "\nStrategic Context: "
EmailRecipient == "\n\nRecipient context: "
EmailFramework == "\nStrategic framework: "
EmailTail == "\n    "
EmailTitle == "[EMAIL] "
NewLine == "\n"
BlankLine == "\n\n"
ProjectOpen == "**"
ProjectClose == ":** "
ProgressClose == "% - "
DashboardSep == ": "

----------------------------------------------------------------------------
(* Utility functions *)

\* The line of one entry [project, update] of the map callback.
ProjectLine(e) ==
    <<ProjectOpen, e.key, ProjectClose>>
    \o ToStr(OrElse(Get(e.value, "progress"), Lit("No progress specified")))
    \o <<ProgressClose>>
    \o ToStr(OrElse(Get(e.value, "context"), Lit("Strategic context from conversation")))

formatProjectUpdates(projects) ==
    IF ~Truthy(projects) THEN <<"No specific project updates provided">>
    ELSE Join([j \in 1..Len(Entries(projects)) |-> ProjectLine(Entries(projects)[j])],
              NewLine)

\* update.progress throws when an entry's update is undefined or null.
formatProjectUpdatesThrows(projects) ==
    /\ Truthy(projects)
    /\ \E j \in 1..Len(Entries(projects)) : Nullish(Entries(projects)[j].value)

DashboardLine(e) == <<e.key, DashboardSep>> \o ToStr(e.value)

formatDashboardUpdates(data) ==
    IF ~Truthy(data) \/ ~Truthy(Get(data, "projects"))
    THEN <<"General dashboard update from strategic conversation">>
    ELSE LET projects == Get(data, "projects")
         IN  Join([j \in 1..Len(Entries(projects)) |-> DashboardLine(Entries(projects)[j])],
                  NewLine)

----------------------------------------------------------------------------
(* The issues the processors build *)

Issue(title, body) == [title |-> title, body |-> body]

\* processStrategicAnalysis: the first issue.
AnalysisIssue(insights, projects, research) ==
    Issue(<<"[DASHBOARD] Strategic Analysis Update">>,
          <<AnalysisHead>>
          \o ToStr(OrElse(insights, Lit("Strategic insights from portfolio discussion")))
          \o <<AnalysisProjects>>
          \o formatProjectUpdates(projects)
          \o <<AnalysisResearch>>
          \o ToStr(OrElse(research,
                Lit("Research requirements identified during strategic conversation")))
          \o <<AnalysisTail>>)

\* The test of line 89 with >= for >.
IsSignificant_Inclusive(insights) ==
    Truthy(insights) /\ LengthExceeds(insights, SignificantLength - 1)

\* if (insights && insights.length > 100)
IsSignificant(insights) ==
    Truthy(insights) /\ LengthExceeds(insights, SignificantLength)

\* processStrategicAnalysis: the second issue.
BriefIssue(insights) ==
    Issue(<<"[EMAIL] Strategic Insights Brief">>,
          <<BriefHead>> \o Substring(ToStr(insights), BriefLength) \o <<BriefTail>>)

\* updateDashboardWithContext, for a dashboardData that is not nullish.
DashboardIssue(dashboardData) ==
    Issue(<<"[DASHBOARD] Contextual Update">>,
          <<DashboardHead>>
          \o formatDashboardUpdates(dashboardData)
          \o <<DashboardFocus>>
          \o ToStr(OrElse(Get(dashboardData, "currentFocus"),
                          Lit("Strategic portfolio execution")))
          \o <<DashboardContext>>
          \o ToStr(OrElse(Get(dashboardData, "context"),
                          Lit("Updates from strategic conversation")))
          \o <<NewLine>>)

\* triggerStrategicEmail: the issue of one entry that is not nullish.
EmailIssue(email) ==
    Issue(<<EmailTitle>>
          \o ToStr(OrElse(Get(email, "subject"), Lit("Strategic Communication"))),
          <<NewLine>>
          \o ToStr(OrElse(Get(email, "type"), Lit("strategic communication")))
          \o <<BlankLine>>
          \o ToStr(OrElse(Get(email, "content"),
                          Lit("Strategic communication from portfolio conversation")))
          \o <<EmailRecipient>>
          \o ToStr(OrElse(Get(email, "recipient"), Lit("strategic stakeholder")))
          \o <<EmailFramework>>
          \o ToStr(OrElse(Get(email, "framework"),
                          Lit("portfolio-based strategic approach")))
          \o <<EmailTail>>)

----------------------------------------------------------------------------
(* Control flow.  A processor runs until it hands an issue to              *)
(* createGitHubIssue (and the handler suspends on fetch), returns, or      *)
(* throws.                                                                 *)

Call(s, k, issue) == [kind |-> "call", site |-> s, idx |-> k, issue |-> issue]
Return == [kind |-> "return"]
Throw(message) == [kind |-> "throw", message |-> message]
Default == [kind |-> "default"]

CannotRead(v, property) ==
    Throw(<<"Cannot read properties of ", v.type, " (reading '", property, "')">>)

\* The values a for-of loop accepts, and what it iterates over.
Iterable(v) == v.type \in {"array", "string"}
Items(v) ==
    IF v.type = "array" THEN v.items
    ELSE [j \in 1..Len(v.chars) |-> Str(<<v.chars[j]>>)]

\* processStrategicAnalysis, up to its first createGitHubIssue.
processStrategicAnalysis(insights, projects, research) ==
    IF formatProjectUpdatesThrows(projects) THEN CannotRead(Null, "progress")
    ELSE Call("analysis", 0, AnalysisIssue(insights, projects, research))

\* processStrategicAnalysis, after its first createGitHubIssue has returned.
AfterAnalysis(insights) ==
    IF ~IsSignificant(insights) THEN Return
    ELSE IF insights.type # "string"
    THEN Throw(<<"insights.substring is not a function">>)
    ELSE Call("brief", 0, BriefIssue(insights))

\* updateDashboardWithContext, up to its createGitHubIssue.
updateDashboardWithContext(dashboardData) ==
    IF Nullish(dashboardData) THEN CannotRead(dashboardData, "currentFocus")
    ELSE Call("dashboard", 0, DashboardIssue(dashboardData))

\* The loop leaving out the last entry.
EmailLoop_StopsEarly(emailRequests, k) ==
    IF k >= Len(Items(emailRequests)) THEN Return
    ELSE IF Nullish(Items(emailRequests)[k])
    THEN CannotRead(Items(emailRequests)[k], "type")
    ELSE Call("email", k, EmailIssue(Items(emailRequests)[k]))

\* The k-th turn of the for-of loop of triggerStrategicEmail.
EmailLoop(emailRequests, k) ==
    IF k > Len(Items(emailRequests)) THEN Return
    ELSE IF Nullish(Items(emailRequests)[k])
    THEN CannotRead(Items(emailRequests)[k], "type")
    ELSE Call("email", k, EmailIssue(Items(emailRequests)[k]))

\* triggerStrategicEmail, up to its first createGitHubIssue.
triggerStrategicEmail(emailRequests) ==
    IF ~Iterable(emailRequests) THEN Throw(<<"emailRequests is not iterable">>)
    ELSE EmailLoop(emailRequests, 1)

\* processComplexStrategicUpdate from `if (emailRequests && ...)` on.
ComplexEmails(body) ==
    LET emailRequests == Get(body, "emailRequests")
    IN  IF Truthy(emailRequests) /\ LengthExceeds(emailRequests, 0)
        THEN triggerStrategicEmail(emailRequests)
        ELSE Return

\* processComplexStrategicUpdate from `if (strategicInsights)` on.
ComplexInsights(body) ==
    IF Truthy(Get(body, "strategicInsights"))
    THEN processStrategicAnalysis(Get(body, "strategicInsights"),
                                  Get(body, "projectUpdates"), Undefined)
    ELSE ComplexEmails(body)

\* processComplexStrategicUpdate from its entry.
processComplexStrategicUpdate(body) ==
    IF Truthy(Get(body, "dashboardData"))
    THEN updateDashboardWithContext(Get(body, "dashboardData"))
    ELSE ComplexInsights(body)

\* The switch with complex-update as its default case.
Dispatch_ComplexByDefault(body) ==
    LET action == Get(body, "action")
    IN  CASE action = Lit("strategic-analysis") ->
                processStrategicAnalysis(Get(body, "strategicInsights"),
                                         Get(body, "projectUpdates"),
                                         Get(body, "researchNeeds"))
          [] action = Lit("dashboard-update") ->
                updateDashboardWithContext(Get(body, "dashboardData"))
          [] action = Lit("send-email") ->
                triggerStrategicEmail(Get(body, "emailRequests"))
          [] OTHER -> processComplexStrategicUpdate(body)

\* switch (action)
Dispatch(body) ==
    LET action == Get(body, "action")
    IN  CASE action = Lit("strategic-analysis") ->
                processStrategicAnalysis(Get(body, "strategicInsights"),
                                         Get(body, "projectUpdates"),
                                         Get(body, "researchNeeds"))
          [] action = Lit("dashboard-update") ->
                updateDashboardWithContext(Get(body, "dashboardData"))
          [] action = Lit("send-email") ->
                triggerStrategicEmail(Get(body, "emailRequests"))
          [] action = Lit("complex-update") ->
                processComplexStrategicUpdate(body)
          [] OTHER -> Default

\* What the processor that made the call at (s, k) does once the call returns.
ResumeProcessor(body, s, k) ==
    CASE s = "analysis" -> AfterAnalysis(Get(body, "strategicInsights"))
      [] s = "email" -> EmailLoop(Get(body, "emailRequests"), k + 1)
      [] OTHER -> Return

\* processComplexStrategicUpdate with its three steps chained by else-if: the
\* first step that runs is the only one.
Resume_ElseIf(body, s, k) == ResumeProcessor(body, s, k)

\* What the handler does once the createGitHubIssue at (s, k) returns: the rest
\* of the processor, then the rest of processComplexStrategicUpdate.
Resume(body, s, k) ==
    LET inner == ResumeProcessor(body, s, k)
    IN  IF inner.kind # "return" \/ Get(body, "action") # Lit("complex-update")
        THEN inner
        ELSE CASE s = "dashboard" -> ComplexInsights(body)
               [] s \in {"analysis", "brief"} -> ComplexEmails(body)
               [] OTHER -> Return

----------------------------------------------------------------------------
(* Requests, tracker answers and responses *)

KnownActions == {"strategic-analysis", "dashboard-update", "send-email", "complex-update"}

ActionValues == {Lit(a) : a \in KnownActions} \cup {Lit("archive"), Undefined}

ProjectUpdatesValues ==
    { Undefined, Null, Obj(<<>>),
      Obj(<<Field("alpha", Obj(<<Field("progress", Num(0))>>))>>),
      Obj(<<Field("alpha", Obj(<<Field("progress", Num(40)),
                                 Field("context", Str(<<"c">>))>>)),
            Field("beta", Obj(<<>>))>>) }

InsightsValues ==
    { Undefined, Str(<<>>),
      Str(Chars(SignificantLength, "i")),
      Str(Chars(SignificantLength + 1, "i")),
      Str(Chars(BriefLength + 1, "i")) }

ResearchValues == {Undefined, Str(<<"r">>)}

EmailValues ==
    { Obj(<<>>),
      Obj(<<Field("subject", Str(<<>>))>>),
      Obj(<<Field("type", Str(<<"t">>)), Field("content", Str(<<"b">>)),
            Field("recipient", Str(<<"to">>)), Field("framework", Str(<<"f">>)),
            Field("subject", Str(<<"s">>))>>) }

EmailRequestsValues ==
    {Undefined, Obj(<<>>)}
    \cup {Arr(s) : s \in UNION {[1..n -> EmailValues] : n \in 0..MaxEmails}}

DashboardValues ==
    { Undefined, Obj(<<>>),
      Obj(<<Field("projects", Obj(<<>>))>>),
      Obj(<<Field("projects", Obj(<<Field("p", Num(1)), Field("q", Str(<<"v">>))>>)),
            Field("currentFocus", Str(<<"x">>)),
            Field("context", Str(<<"y">>))>>) }

Bodies ==
    { Json(<<Field("action", a), Field("projectUpdates", pu),
             Field("strategicInsights", si), Field("researchNeeds", rn),
             Field("emailRequests", er), Field("dashboardData", dd)>>) :
        a \in ActionValues, pu \in ProjectUpdatesValues, si \in InsightsValues,
        rn \in ResearchValues, er \in EmailRequestsValues, dd \in DashboardValues }

Methods == {"POST", "GET"}

\* A request: a method and a parsed body, or no body at all.
Requests == [method : Methods, body : Bodies \cup {Undefined}]

\* How a fetch settles: with a Response of the tracker, or rejected.
FetchResults ==
    { [kind |-> "response", status |-> 201, text |-> <<"{}">>],
      [kind |-> "response", status |-> 422, text |-> <<"Validation Failed">>],
      [kind |-> "response", status |-> 503, text |-> <<>>],
      [kind |-> "rejected", status |-> 0, text |-> <<"fetch failed">>] }

NoResponse == [kind |-> "none", status |-> 0, text |-> <<>>]

\* response.ok without its upper limit.
Ok_NoUpperLimit(r) == r.status >= 200

\* response.ok
Ok(r) == r.status >= 200 /\ r.status <= 299

\* The message of the Error createGitHubIssue throws.
GitHubError(r) == <<"GitHub API error: ", ToString(r.status), " ">> \o r.text

\* The readings of the clock, and new Date().toISOString().
Instants == {0, 1}
toISOString(now) == <<"1970-01-01T00:00:0", ToString(now), ".000Z">>

MethodNotAllowed == [status |-> 405, json |-> [error |-> "Method not allowed"]]
UnknownAction == [status |-> 400, json |-> [error |-> "Unknown action type"]]
Success(now) ==
    [status |-> 200,
     json |-> [success |-> TRUE,
               message |-> "Strategic update processed successfully",
               timestamp |-> toISOString(now)]]
ProcessingFailed(message) ==
    [status |-> 500, json |-> [error |-> "Processing failed", details |-> message]]

----------------------------------------------------------------------------
(* The handler *)

\* The state when the invocations `ids` have received their requests.
Start(ids, requests) ==
    /\ live = ids
    /\ req \in [live -> requests]
    /\ pc = [i \in live |-> "received"]
    /\ site = [i \in live |-> "none"]
    /\ idx = [i \in live |-> 0]
    /\ response = [i \in live |-> NoResponse]
    /\ calls = [i \in live |-> <<>>]
    /\ answers = [i \in live |-> <<>>]
    /\ sent = [i \in live |-> <<>>]

Init == Start({1}, Requests)

\* A failure kept in module-level state: a 500 also ends the other
\* invocations that are still running.
Reply_SharedFailure(i, r) ==
    LET hit(j) == j = i \/ (r.status = 500 /\ pc[j] # "responded")
    IN  /\ sent' = [j \in live |-> IF hit(j) THEN Append(sent[j], r) ELSE sent[j]]
        /\ pc' = [j \in live |-> IF hit(j) THEN "responded" ELSE pc[j]]
        /\ site' = [j \in live |-> IF hit(j) THEN "none" ELSE site[j]]
        /\ idx' = [j \in live |-> IF hit(j) THEN 0 ELSE idx[j]]
        /\ response' = [j \in live |-> IF hit(j) THEN NoResponse ELSE response[j]]
        /\ UNCHANGED calls

\* res.status(..).json(..): the invocation ends.
Reply(i, r) ==
    /\ sent' = [sent EXCEPT ![i] = Append(@, r)]
    /\ pc' = [pc EXCEPT ![i] = "responded"]
    /\ site' = [site EXCEPT ![i] = "none"]
    /\ idx' = [idx EXCEPT ![i] = 0]
    /\ response' = [response EXCEPT ![i] = NoResponse]
    /\ UNCHANGED calls

\* The handler without its try/catch: a thrown error ends the invocation
\* and nothing is written to res.
Proceed_Uncaught(i, o, now) ==
    CASE o.kind = "call" ->
            /\ calls' = [calls EXCEPT ![i] = Append(@, o.issue)]
            /\ pc' = [pc EXCEPT ![i] = "fetching"]
            /\ site' = [site EXCEPT ![i] = o.site]
            /\ idx' = [idx EXCEPT ![i] = o.idx]
            /\ response' = [response EXCEPT ![i] = NoResponse]
            /\ UNCHANGED sent
      [] o.kind = "return" -> Reply(i, Success(now))
      [] o.kind = "throw" ->
            /\ pc' = [pc EXCEPT ![i] = "responded"]
            /\ UNCHANGED <<site, idx, response, calls, sent>>
      [] OTHER -> Reply(i, UnknownAction)

\* The handler runs on from outcome o of its processors: into the fetch of
\* createGitHubIssue, or to one of its responses.
Proceed(i, o, now) ==
    CASE o.kind = "call" ->
            /\ calls' = [calls EXCEPT ![i] = Append(@, o.issue)]
            /\ pc' = [pc EXCEPT ![i] = "fetching"]
            /\ site' = [site EXCEPT ![i] = o.site]
            /\ idx' = [idx EXCEPT ![i] = o.idx]
            /\ response' = [response EXCEPT ![i] = NoResponse]
            /\ UNCHANGED sent
      [] o.kind = "return" -> Reply(i, Success(now))
      [] o.kind = "throw" -> Reply(i, ProcessingFailed(o.message))
      [] OTHER -> Reply(i, UnknownAction)

\* The handler without its method check.
MethodAllowed_Any(method) == method \in Methods

\* if (req.method !== 'POST') return 405
MethodAllowed(method) == method = "POST"

\* The handler from its entry to its first await, or to its response.
Invoke(i) ==
    /\ pc[i] = "received"
    /\ \E now \in Instants :
          IF ~MethodAllowed(req[i].method) THEN Reply(i, MethodNotAllowed)
          ELSE IF Nullish(req[i].body)
          THEN Reply(i, ProcessingFailed(
                  <<"Cannot destructure property 'action' of 'req.body' as it is ",
                    req[i].body.type, ".">>))
          ELSE Proceed(i, Dispatch(req[i].body), now)
    /\ UNCHANGED <<live, req, answers>>

\* The fetch of createGitHubIssue settles.
FetchSettles(i) ==
    /\ pc[i] = "fetching"
    /\ \E r \in FetchResults :
          /\ answers' = [answers EXCEPT ![i] = Append(@, r)]
          /\ IF r.kind = "rejected"
             THEN Reply(i, ProcessingFailed(r.text))
             ELSE /\ response' = [response EXCEPT ![i] = r]
                  /\ pc' = [pc EXCEPT ![i] = "reading"]
                  /\ UNCHANGED <<site, idx, calls, sent>>
    /\ UNCHANGED <<live, req>>

\* response.text() or response.json() completes; createGitHubIssue throws or
\* returns, and the handler runs on to its next await or to its response.
BodyRead(i) ==
    /\ pc[i] = "reading"
    /\ \E now \in Instants :
          IF ~Ok(response[i])
          THEN Reply(i, ProcessingFailed(GitHubError(response[i])))
          ELSE Proceed(i, Resume(req[i].body, site[i], idx[i]), now)
    /\ UNCHANGED <<live, req, answers>>

Next ==
    \/ \E i \in live : Invoke(i)
    \/ \E i \in live : FetchSettles(i)
    \/ \E i \in live : BodyRead(i)

Spec == Init /\ [][Next]_vars

\* The invocations a run may hold.
Invocations == {1, 2}

\* The event loop runs every handler that can run, every fetch settles and
\* every body read completes.
Fairness ==
    \A i \in Invocations :
        /\ WF_vars(i \in live /\ Invoke(i))
        /\ WF_vars(i \in live /\ FetchSettles(i))
        /\ WF_vars(i \in live /\ BodyRead(i))

\* The requests of the runs checked for termination: every method, action and
\* shape of emailRequests, with or without a body, insights and dashboard.
TerminationBodies ==
    { Json(<<Field("action", a), Field("strategicInsights", si),
             Field("emailRequests", er), Field("dashboardData", dd)>>) :
        a \in ActionValues,
        si \in {Undefined, Str(Chars(SignificantLength + 1, "i"))},
        er \in EmailRequestsValues,
        dd \in {Undefined, Obj(<<>>)} }

TerminationRequests == [method : Methods, body : TerminationBodies \cup {Undefined}]

FairInit == Start({1}, TerminationRequests)

FairSpec == FairInit /\ [][Next]_vars /\ Fairness

\* The requests of the runs with two concurrent invocations.
ConcurrentBodies ==
    { Json(<<Field("action", Lit("complex-update")),
             Field("strategicInsights", Str(Chars(SignificantLength + 1, "i"))),
             Field("emailRequests", Arr(<<Obj(<<Field("subject", Str(<<"s">>))>>)>>)),
             Field("dashboardData", Obj(<<>>))>>),
      Json(<<Field("action", Lit("send-email")),
             Field("emailRequests", Arr(<<Obj(<<>>), Obj(<<Field("subject", Str(<<"s">>))>>)>>))>>),
      Json(<<Field("action", Lit("strategic-analysis")),
             Field("researchNeeds", Str(<<"r">>))>>),
      Json(<<Field("action", Lit("dashboard-update"))>>),
      Json(<<Field("action", Lit("archive"))>>) }

ConcurrentRequests == [method : Methods, body : ConcurrentBodies]

ConcurrentInit == Start(Invocations, ConcurrentRequests)

ConcurrentSpec == ConcurrentInit /\ [][Next]_vars

----------------------------------------------------------------------------
(* Vocabulary of the properties *)

Posted(i) == req[i].method = "POST" /\ req[i].body.type = "object"
ActionOf(i) == Get(req[i].body, "action")
Responded(i) == pc[i] = "responded"
Present(v) == v.type # "undefined"

\* The tracker answered 2xx to every call made so far.
AllAccepted(i) ==
    \A k \in 1..Len(answers[i]) :
        /\ answers[i][k].kind = "response"
        /\ answers[i][k].status \in 200..299

IsSuccess(r) ==
    /\ r.status = 200
    /\ \E now \in Instants :
          r.json = [success |-> TRUE,
                    message |-> "Strategic update processed successfully",
                    timestamp |-> toISOString(now)]

\* The tokens of text strictly between the tokens open and close.
Between(text, open, close) ==
    LET a == CHOOSE j \in 1..Len(text) : text[j] = open
        b == CHOOSE j \in 1..Len(text) : text[j] = close
    IN  SubSeq(text, a + 1, b - 1)

RECURSIVE CallsFrom(_, _)
\* The issues the handler hands over from outcome o on when every call is
\* accepted.
CallsFrom(body, o) ==
    IF o.kind # "call" THEN <<>>
    ELSE <<o.issue>> \o CallsFrom(body, Resume(body, o.site, o.idx))

AcceptedCalls(body) == CallsFrom(body, Dispatch(body))

\* The same payload under another action.
WithAction(body, a) ==
    Obj([j \in 1..Len(body.entries) |->
            IF body.entries[j].key = "action" THEN Field("action", Lit(a))
            ELSE body.entries[j]])

----------------------------------------------------------------------------
(* C1: a POST whose action is one of the four known values is answered 200 *)
(* with the success envelope when the tracker accepts every outbound call, *)
(* whichever payload fields are present.                                   *)
C1_SuccessForKnownActions ==
    \A i \in live :
        ( /\ Posted(i)
          /\ ActionOf(i) \in {Lit(a) : a \in KnownActions}
          /\ Responded(i)
          /\ AllAccepted(i) )
        => /\ Len(sent[i]) = 1
           /\ IsSuccess(sent[i][1])

(* C2: once the tracker answers a call with a status outside 200..299, no   *)
(* further call is made and the only response is 500 "Processing failed"   *)
(* whose details carry the status code and the response text.              *)
C2_FailureAborts ==
    \A i \in live : \A k \in 1..Len(answers[i]) :
        ( /\ answers[i][k].kind = "response"
          /\ answers[i][k].status \notin 200..299 )
        => /\ k = Len(answers[i])
           /\ Len(calls[i]) = k
           /\ pc[i] \in {"reading", "responded"}
           /\ Responded(i) =>
                sent[i] = << [status |-> 500,
                              json |-> [error |-> "Processing failed",
                                        details |-> <<"GitHub API error: ",
                                                      ToString(answers[i][k].status),
                                                      " ">> \o answers[i][k].text]] >>

\* A complex-update whose second call was refused while e-mails were still
\* planned has answered.
C2_Witness ==
    \E i \in live :
        /\ Posted(i) /\ ActionOf(i) = Lit("complex-update")
        /\ Responded(i)
        /\ Len(answers[i]) = 2
        /\ answers[i][2].status = 422
        /\ Len(AcceptedCalls(req[i].body)) > 2

(* C3: a complex-update with dashboardData, strategicInsights,             *)
(* projectUpdates, researchNeeds and a non-empty emailRequests makes the   *)
(* calls of a dashboard-update, then those of a strategic-analysis, then   *)
(* those of a send-email, each carrying the same payload.                  *)
C3_ComplexIsConcatenation ==
    \A i \in live :
        LET body == req[i].body
        IN  ( /\ Posted(i) /\ ActionOf(i) = Lit("complex-update")
              /\ Present(Get(body, "dashboardData"))
              /\ Present(Get(body, "strategicInsights"))
              /\ Present(Get(body, "projectUpdates"))
              /\ Present(Get(body, "researchNeeds"))
              /\ Get(body, "emailRequests").type = "array"
              /\ Len(Get(body, "emailRequests").items) > 0
              /\ Responded(i)
              /\ AllAccepted(i) )
            => calls[i] = AcceptedCalls(WithAction(body, "dashboard-update"))
                          \o AcceptedCalls(WithAction(body, "strategic-analysis"))
                          \o AcceptedCalls(WithAction(body, "send-email"))

(* C4: a strategic-analysis whose calls are all accepted makes two calls,  *)
(* the analysis update and then the insights brief, when strategicInsights *)
(* is longer than 100, and one call when it is absent or at most 100 long. *)
C4_AnalysisCallCount ==
    \A i \in live :
        LET insights == Get(req[i].body, "strategicInsights")
        IN  ( /\ Posted(i) /\ ActionOf(i) = Lit("strategic-analysis")
              /\ Responded(i)
              /\ AllAccepted(i) )
            => IF insights.type = "string" /\ Len(insights.chars) > 100
               THEN /\ Len(calls[i]) = 2
                    /\ calls[i][1].title = <<"[DASHBOARD] Strategic Analysis Update">>
                    /\ calls[i][2].title = <<"[EMAIL] Strategic Insights Brief">>
               ELSE Len(calls[i]) = 1

\* An accepted strategic-analysis with insights one character over the limit
\* has answered after two calls.
C4_Witness ==
    \E i \in live :
        /\ Posted(i) /\ ActionOf(i) = Lit("strategic-analysis")
        /\ Responded(i)
        /\ AllAccepted(i)
        /\ Get(req[i].body, "strategicInsights").type = "string"
        /\ Len(Get(req[i].body, "strategicInsights").chars) = 101
        /\ Len(calls[i]) = 2

\* The title the e-mail claim gives entry e, with the fallback for the
\* subjects in `unset`.
EmailTitleFor(email, unset) ==
    IF Get(email, "subject") \in unset THEN <<"[EMAIL] ", "Strategic Communication">>
    ELSE <<"[EMAIL] ">> \o Get(email, "subject").chars

\* An accepted send-email over a sequence makes one call per entry, in order,
\* titled as EmailTitleFor says.
EmailCallsTitled(unset) ==
    \A i \in live :
        LET emails == Get(req[i].body, "emailRequests")
        IN  ( /\ Posted(i) /\ ActionOf(i) = Lit("send-email")
              /\ emails.type = "array"
              /\ Responded(i)
              /\ AllAccepted(i) )
            => /\ Len(calls[i]) = Len(emails.items)
               /\ \A k \in 1..Len(emails.items) :
                     calls[i][k].title = EmailTitleFor(emails.items[k], unset)

(* C5 as stated: an accepted send-email over N entries makes N calls, the  *)
(* i-th titled '[EMAIL] ' and the i-th entry's subject, or 'Strategic      *)
(* Communication' when the subject is absent.                              *)
C5_FallbackOnlyWhenAbsent == EmailCallsTitled({Undefined})

(* C5 as amended: an accepted send-email over N entries makes N calls, the *)
(* i-th titled '[EMAIL] ' and the i-th entry's subject, or 'Strategic      *)
(* Communication' when the subject is absent or the empty string.          *)
C5_EmailCalls == EmailCallsTitled({Undefined, Str(<<>>)})

\* An accepted send-email over two entries, one of them with an empty subject,
\* has answered.
C5_Witness ==
    \E i \in live :
        LET emails == Get(req[i].body, "emailRequests")
        IN  /\ Posted(i) /\ ActionOf(i) = Lit("send-email")
            /\ emails.type = "array"
            /\ Len(emails.items) = 2
            /\ Get(emails.items[1], "subject") = Str(<<"s">>)
            /\ Get(emails.items[2], "subject") = Str(<<>>)
            /\ Responded(i)
            /\ AllAccepted(i)
            /\ Len(calls[i]) = 2

C7_MethodNotAllowed ==
    \A i \in live :
        req[i].method # "POST"
        => /\ calls[i] = <<>>
           /\ pc[i] \in {"received", "responded"}
           /\ Responded(i) =>
                sent[i] = <<[status |-> 405, json |-> [error |-> "Method not allowed"]]>>

\* A GET whose body names a known action has answered.
C7_Witness ==
    \E i \in live :
        /\ req[i].method = "GET"
        /\ req[i].body.type = "object"
        /\ ActionOf(i) = Lit("send-email")
        /\ Responded(i)
        /\ Len(sent[i]) = 1

\* The part of a dashboard body after its last label, its closing newline
\* left out.
AfterLabel(text, label) ==
    SubSeq(text, (CHOOSE j \in 1..Len(text) : text[j] = label) + 1, Len(text) - 1)

\* No slot of the issue's templates is left without text.
SectionsFilled(c) ==
    /\ CASE c.title[1] = "[DASHBOARD] Strategic Analysis Update" ->
              /\ Between(c.body, AnalysisHead, AnalysisProjects) # <<>>
              /\ Between(c.body, AnalysisProjects, AnalysisResearch) # <<>>
              /\ Between(c.body, AnalysisResearch, AnalysisTail) # <<>>
         [] c.title[1] = "[EMAIL] Strategic Insights Brief" ->
              Between(c.body, BriefHead, BriefTail) # <<>>
         [] c.title[1] = "[DASHBOARD] Contextual Update" ->
              /\ Between(c.body, DashboardHead, DashboardFocus) # <<>>
              /\ Between(c.body, DashboardFocus, DashboardContext) # <<>>
              /\ AfterLabel(c.body, DashboardContext) # <<>>
         [] OTHER ->
              /\ Len(c.title) > 1
              /\ Between(c.body, NewLine, BlankLine) # <<>>
              /\ Between(c.body, BlankLine, EmailRecipient) # <<>>
              /\ Between(c.body, EmailRecipient, EmailFramework) # <<>>
              /\ Between(c.body, EmailFramework, EmailTail) # <<>>
    /\ \A j \in 1..Len(c.body) :
          /\ c.body[j] = ProjectClose => c.body[j + 1] # ProgressClose
          /\ c.body[j] = ProgressClose =>
                c.body[j + 1] \notin {NewLine, AnalysisResearch}

(* C8: every issue handed to the tracker has a non-empty title and a       *)
(* non-empty body, and each section of the body that comes from an         *)
(* optional field shows the field's value or its fallback text, never      *)
(* nothing, also when a projects mapping is present and empty.             *)
C8_NoBlankSection ==
    \A i \in live : \A k \in 1..Len(calls[i]) :
        /\ Len(calls[i][k].title) > 0
        /\ Len(calls[i][k].body) > 0
        /\ SectionsFilled(calls[i][k])

\* The line the formatting claim gives one entry of the projects mapping.
ClaimedProjectLine(e) ==
    <<"**", e.key, ":** ">>
    \o (IF Present(Get(e.value, "progress"))
        THEN <<ToString(Get(e.value, "progress").value)>>
        ELSE <<"No progress specified">>)
    \o <<"% - ">>
    \o (IF Present(Get(e.value, "context"))
        THEN Get(e.value, "context").chars
        ELSE <<"Strategic context from conversation">>)

ClaimedProjectLines(projects) ==
    IF Nullish(projects) THEN <<"No specific project updates provided">>
    ELSE Join([j \in 1..Len(projects.entries) |-> ClaimedProjectLine(projects.entries[j])],
              "\n")

(* C9: the project section of the analysis issue has one line per entry of *)
(* the projects mapping, in order, showing the progress whenever a number  *)
(* is given (0 included) and 'No progress specified' only when none is,    *)
(* and the context or its fallback; an absent or null mapping gives the    *)
(* line 'No specific project updates provided'.                            *)
C9_ProjectLines ==
    \A i \in live :
        ( /\ Posted(i) /\ ActionOf(i) = Lit("strategic-analysis")
          /\ Len(calls[i]) >= 1 )
        => Between(calls[i][1].body, AnalysisProjects, AnalysisResearch)
           = ClaimedProjectLines(Get(req[i].body, "projectUpdates"))

\* The lines the dashboard claim gives dashboardData.
ClaimedDashboardLines(data) ==
    IF ~Present(data) \/ ~Present(Get(data, "projects"))
    THEN <<"General dashboard update from strategic conversation">>
    ELSE LET entries == Get(data, "projects").entries
         IN  Join([j \in 1..Len(entries) |->
                     <<entries[j].key, ": ">> \o ToStr(entries[j].value)], "\n")

(* C10: a dashboard-update makes exactly one call, '[DASHBOARD] Contextual *)
(* Update', whose body carries the fallback line when dashboardData or its *)
(* projects field is absent and one '<project>: <value>' line per entry of *)
(* dashboardData.projects otherwise.                                       *)
C10_DashboardIssue ==
    \A i \in live :
        ( /\ Posted(i) /\ ActionOf(i) = Lit("dashboard-update")
          /\ Responded(i) )
        => /\ Len(calls[i]) = 1
           /\ calls[i][1].title = <<"[DASHBOARD] Contextual Update">>
           /\ Between(calls[i][1].body, DashboardHead, DashboardFocus)
              = ClaimedDashboardLines(Get(req[i].body, "dashboardData"))

(* C11: within one invocation the outbound calls are strictly sequential:   *)
(* at most one call is in flight at any moment, and a call is issued only  *)
(* after every earlier call of the invocation was answered 2xx and its     *)
(* answer read.                                                            *)
C11_Sequential ==
    \A i \in live :
        LET issued == Len(calls[i])
            settled == Len(answers[i])
        IN  /\ settled <= issued
            /\ issued <= settled + 1
            /\ issued = settled + 1 <=> pc[i] = "fetching"
            /\ \A k \in 1..settled :
                  k < issued => /\ answers[i][k].kind = "response"
                                /\ answers[i][k].status \in 200..299

\* A third call is in flight after two accepted ones.
C11_Witness ==
    \E i \in live :
        /\ pc[i] = "fetching"
        /\ Len(calls[i]) = 3
        /\ Len(answers[i]) = 2

\* The response is one of the four the interface lists, with its JSON body.
WellFormedResponse(r) ==
    \/ /\ r.status = 200
       /\ DOMAIN r.json = {"success", "message", "timestamp"}
    \/ /\ r.status \in {400, 405}
       /\ DOMAIN r.json = {"error"}
    \/ /\ r.status = 500
       /\ DOMAIN r.json = {"error", "details"}

(* C12: every invocation, whatever its method and body (no body and an    *)
(* emailRequests that is not a sequence included), eventually ends, given  *)
(* that every outbound call settles; it sends at most one response while   *)
(* it runs and has sent exactly one when it has ended, with status 200,    *)
(* 400, 405 or 500 and a JSON body.                                        *)
C12_OneResponse ==
    /\ [](\A i \in live :
            /\ Len(sent[i]) = (IF Responded(i) THEN 1 ELSE 0)
            /\ \A k \in 1..Len(sent[i]) : WellFormedResponse(sent[i][k]))
    /\ \A i \in Invocations : <>(i \in live => Responded(i) /\ Len(sent[i]) = 1)

\* A send-email whose emailRequests is not a sequence, and a POST without a
\* body, have been answered.
C12_Witness ==
    \E i \in live :
        /\ req[i].method = "POST"
        /\ \/ req[i].body = Undefined
           \/ /\ ActionOf(i) = Lit("send-email")
              /\ Get(req[i].body, "emailRequests") = Obj(<<>>)
        /\ Responded(i)
        /\ Len(sent[i]) = 1

RECURSIVE Replay(_, _, _)
\* A handler running alone from outcome o on, the tracker answering its calls
\* with `rest`: the calls it makes and, once it has ended, its response.
Replay(body, o, rest) ==
    CASE o.kind = "call" ->
            IF rest = <<>>
            THEN [calls |-> <<o.issue>>, ended |-> FALSE, reply |-> NoResponse]
            ELSE IF Head(rest).kind = "rejected"
            THEN [calls |-> <<o.issue>>, ended |-> TRUE,
                  reply |-> ProcessingFailed(Head(rest).text)]
            ELSE IF Head(rest).status \notin 200..299
            THEN [calls |-> <<o.issue>>, ended |-> TRUE,
                  reply |-> ProcessingFailed(GitHubError(Head(rest)))]
            ELSE LET after == Replay(body, Resume(body, o.site, o.idx), Tail(rest))
                 IN  [after EXCEPT !.calls = <<o.issue>> \o @]
      [] o.kind = "return" ->
            [calls |-> <<>>, ended |-> TRUE, reply |-> Success(0)]
      [] o.kind = "throw" ->
            [calls |-> <<>>, ended |-> TRUE, reply |-> ProcessingFailed(o.message)]
      [] OTHER -> [calls |-> <<>>, ended |-> TRUE, reply |-> UnknownAction]

\* The handler running alone on request r.
Alone(r, rest) ==
    IF r.method # "POST"
    THEN [calls |-> <<>>, ended |-> TRUE, reply |-> MethodNotAllowed]
    ELSE IF r.body.type # "object"
    THEN [calls |-> <<>>, ended |-> TRUE,
          reply |-> ProcessingFailed(
              <<"Cannot destructure property 'action' of 'req.body' as it is ",
                r.body.type, ".">>)]
    ELSE Replay(r.body, Dispatch(r.body), rest)

\* The answers of the tracker that invocation i has read.
AnswersRead(i) ==
    IF pc[i] = "reading" THEN SubSeq(answers[i], 1, Len(answers[i]) - 1)
    ELSE answers[i]

\* Equal responses, whatever the clock showed.
SameReply(a, b) ==
    IF a.status = 200 \/ b.status = 200 THEN IsSuccess(a) /\ IsSuccess(b)
    ELSE a = b

(* C13: with two invocations running concurrently, their steps interleaved *)
(* in any order, the calls and the response of each are those of a handler *)
(* running alone on its request with the tracker's answers to its own      *)
(* calls; a failure of one neither suppresses a call nor changes the       *)
(* response of the other.                                                  *)
C13_Independent ==
    \A i \in live :
        LET alone == Alone(req[i], AnswersRead(i))
        IN  IF pc[i] = "received"
            THEN calls[i] = <<>> /\ answers[i] = <<>> /\ sent[i] = <<>>
            ELSE /\ calls[i] = alone.calls
                 /\ Responded(i) <=> alone.ended
                 /\ Len(sent[i]) = (IF alone.ended THEN 1 ELSE 0)
                 /\ alone.ended => SameReply(sent[i][1], alone.reply)

\* Two invocations of the same request have ended, one refused by the tracker
\* at its first call, the other accepted through all of its calls.
C13_Witness ==
    \E i, j \in live :
        /\ i # j
        /\ req[i] = req[j]
        /\ Responded(i) /\ Responded(j)
        /\ Len(calls[i]) = 1 /\ sent[i][1].status = 500
        /\ Len(calls[j]) > 1 /\ sent[j][1].status = 200

(* C14: no outbound call is issued once the response is sent, and a 200   *)
(* is sent only when every call planned for the request has been issued    *)
(* and answered 2xx: none is pending, skipped or failed.                   *)
C14_SuccessMeansAllAccepted ==
    /\ [](\A i \in live :
            (Responded(i) /\ \E k \in 1..Len(sent[i]) : sent[i][k].status = 200)
            => /\ Posted(i)
               /\ calls[i] = AcceptedCalls(req[i].body)
               /\ Len(answers[i]) = Len(calls[i])
               /\ \A k \in 1..Len(answers[i]) :
                     /\ answers[i][k].kind = "response"
                     /\ answers[i][k].status \in 200..299)
    /\ [][\A i \in live : Len(sent[i]) > 0 => calls'[i] = calls[i]]_vars

\* A complex-update has answered 200 after four accepted calls.
C14_Witness ==
    \E i \in live :
        /\ Posted(i) /\ ActionOf(i) = Lit("complex-update")
        /\ Responded(i)
        /\ sent[i][1].status = 200
        /\ Len(calls[i]) >= 4

\* The payload with only its action and the fields `keys`.
Part(body, keys) ==
    Obj(SelectSeq(body.entries, LAMBDA e : e.key = "action" \/ e.key \in keys))

\* An accepted complex-update is answered 200 after the calls of its dashboard
\* step, its analysis step and its e-mail step, each as it would be with the
\* fields of the other two steps absent; the dashboard step is skipped exactly
\* when dashboardData is absent, the analysis step exactly when
\* strategicInsights is in `noInsights`, the e-mail step exactly when
\* emailRequests is in `noEmails`.
ComplexSteps(noInsights, noEmails) ==
    \A i \in live :
        ( /\ Posted(i) /\ ActionOf(i) = Lit("complex-update")
          /\ Responded(i)
          /\ AllAccepted(i) )
        => LET body == req[i].body
               d == AcceptedCalls(Part(body, {"dashboardData"}))
               a == AcceptedCalls(Part(body, {"strategicInsights", "projectUpdates"}))
               e == AcceptedCalls(Part(body, {"emailRequests"}))
           IN  /\ Len(sent[i]) = 1
               /\ IsSuccess(sent[i][1])
               /\ calls[i] = d \o a \o e
               /\ d = <<>> <=> ~Present(Get(body, "dashboardData"))
               /\ a = <<>> <=> Get(body, "strategicInsights") \in noInsights
               /\ e = <<>> <=> Get(body, "emailRequests") \in noEmails
               /\ d # <<>> => d[1].title = <<"[DASHBOARD] Contextual Update">>
               /\ a # <<>> => a[1].title = <<"[DASHBOARD] Strategic Analysis Update">>
               /\ e # <<>> => /\ Len(e) = Len(Get(body, "emailRequests").items)
                              /\ \A k \in 1..Len(e) : e[k].title[1] = "[EMAIL] "

(* C15 as stated: a complex-update without dashboardData and               *)
(* strategicInsights and with emailRequests absent or empty makes no call  *)
(* and is answered 200; each of the three steps is skipped exactly when    *)
(* its guard field is absent (or, for emailRequests, empty), and the other *)
(* two are not affected.                                                   *)
C15_SkippedOnlyWhenAbsent == ComplexSteps({Undefined}, {Undefined, Arr(<<>>)})

(* C15 as amended: a complex-update without dashboardData and              *)
(* strategicInsights and with emailRequests absent or empty makes no call  *)
(* and is answered 200; each of the three steps is skipped exactly when    *)
(* its guard field is absent or, for strategicInsights, the empty string   *)
(* or, for emailRequests, empty or not a sequence, and the other two are   *)
(* not affected.                                                           *)
C15_ComplexSteps == ComplexSteps({Undefined, Str(<<>>)}, {Undefined, Arr(<<>>), Obj(<<>>)})

\* A complex-update with an empty strategicInsights, a dashboard and one
\* e-mail has answered after its dashboard and e-mail calls.
C15_Witness ==
    \E i \in live :
        /\ Posted(i) /\ ActionOf(i) = Lit("complex-update")
        /\ Get(req[i].body, "strategicInsights") = Str(<<>>)
        /\ Present(Get(req[i].body, "dashboardData"))
        /\ Get(req[i].body, "emailRequests").type = "array"
        /\ Responded(i)
        /\ AllAccepted(i)
        /\ Len(calls[i]) = 2
        /\ Len(sent[i]) = 1

====
